---- MODULE Spec2Model ----
(***************************************************************************)
(* Lecture Attendance Checker (app.py): registration, login and face-gated *)
(* check-in over three SQLite tables and a directory of face images.       *)
(* Every browser session runs the script in its own thread with its own    *)
(* st.session_state and its own database connections; the tables and the   *)
(* image directory are shared.  Each SQL statement and each file write is  *)
(* one atomic step; a handler is a sequence of such steps.                 *)
(***************************************************************************)
EXTENDS Integers, Sequences, FiniteSets, TLC

\* ---------------------------------------------------------------- bounds
MaxLectures    == 2
MaxAttendances == 2
MaxRows        == 3     \* attendance rows of a database found at start

\* ---------------------------------------------------------------- inputs
Sessions   == {1, 2}
StudentIds == {"S100", "S100_probe"}
Emails     == {"alice@x.com", "bob@x.com"}
Passwords  == {"pw123", "pw456"}
Salts      == {"salt1"}

\* what the users type into the registration form and capture
RegisterForms ==
    { [sid |-> "S100",       name |-> "Alice", email |-> "alice@x.com",
       pw |-> "pw123", photo |-> "faceA"],
      [sid |-> "S100_probe", name |-> "Bob",   email |-> "bob@x.com",
       pw |-> "pw456", photo |-> "faceB"],
      [sid |-> "S100",       name |-> "",      email |-> "bob@x.com",
       pw |-> "pw456", photo |-> "faceB"],
      [sid |-> "",           name |-> "Alice", email |-> "alice@x.com",
       pw |-> "pw123", photo |-> "faceA"] }

\* what the users type into the check-in form and capture
CheckInForms ==
    { [code |-> "CS101", title |-> "Intro",    photo |-> "probeC"],
      [code |-> "CS101", title |-> "Intro II", photo |-> "probeC"],
      [code |-> "CS102", title |-> "Intro II", photo |-> "probeC"],
      [code |-> "",      title |-> "Intro",    photo |-> "probeC"] }

None    == "None"       \* Python None: no photo captured
\* no file at that path
NoImage == [mode |-> "absent", pixels |-> ""]

\* ---------------------------------------------------------------- helpers
DATA_DIR == "data"

\* os.path.join(DATA_DIR, f"{student_id}.jpg")
FacePath(student_id) == DATA_DIR \o "/" \o student_id \o ".jpg"

\* f"{user['student_id']}_probe"
ProbeKey(student_id) == student_id \o "_probe"

\* Image.open(image).convert("RGB"), saved as JPEG
ConvertRGB(image) == [mode |-> "RGB", pixels |-> image]

AllPaths == {FacePath(k) : k \in StudentIds \cup {ProbeKey(i) : i \in StudentIds}}

\* werkzeug generate_password_hash: method, salt and a digest of salt and
\* password (an ideal hash: distinct inputs give distinct digests)
Digest(salt, pw) == <<"h", salt, pw>>
generate_password_hash(pw, salt) ==
    [method |-> "scrypt", salt |-> salt, digest |-> Digest(salt, pw)]

\* a check that accepts every password
Any_check_password_hash(pwhash, pw) == TRUE

\* werkzeug check_password_hash: recompute with the stored salt and compare
check_password_hash(pwhash, pw) == Digest(pwhash.salt, pw) = pwhash.digest

\* clock ticks in a day
DayLength == 4

\* datetime.utcnow().isoformat(): the clock reading, as text
IsoFormat(t) == [date |-> t \div DayLength, time |-> t % DayLength]
\* datetime.utcnow().date().isoformat()
IsoDate(t) == t \div DayLength

\* DeepFace.verify: a dict with "verified" and "distance", or an exception.
\* Distances are in tenths.
DeepFaceResults ==
    { [raised |-> FALSE, verified |-> TRUE,  distance |-> 2],
      [raised |-> FALSE, verified |-> FALSE, distance |-> 8],
      [raised |-> TRUE,  verified |-> FALSE, distance |-> 0] }

\* no call of DeepFace.verify made yet
NoDeepFace == [raised |-> FALSE, verified |-> FALSE, distance |-> 0]

FailDistance == 10      \* the 1.0 of "return False, 1.0"

\* a wrapper that fails open: an exception counts as a match
Open_verify_faces(df) ==
    IF df.raised THEN [ok |-> TRUE, dist |-> 0]
    ELSE [ok |-> df.verified, dist |-> df.distance]

\* except Exception: return False, 1.0
verify_faces(df) ==
    IF df.raised THEN [ok |-> FALSE, dist |-> FailDistance]
    ELSE [ok |-> df.verified, dist |-> df.distance]

\* ---------------------------------------------------------------- state
VARIABLES
    students,      \* table students, in rowid order
    lectures,      \* table lectures, in rowid order
    attendances,   \* table attendances, in rowid order
    images,        \* files under DATA_DIR: path -> content
    user,          \* st.session_state.user of each session
    pc,            \* position of each session's script run
    req,           \* widget values and handler locals of a running handler
    out            \* what the step just taken rendered (st.success, st.error,
                   \* st.info, st.warning), with the handler's inputs and locals

vars == <<students, lectures, attendances, images, user, pc, req, out>>

\* Python None where a students row is expected (fetchone() without a
\* match, st.session_state.user before a login)
NoRow ==
    [id |-> 0, student_id |-> "", name |-> "", email |-> "",
     password_hash |-> [method |-> "", salt |-> "", digest |-> <<>>],
     face_path |-> "", created_at |-> [date |-> 0, time |-> 0]]

Blank ==
    [sid |-> "", name |-> "", email |-> "", pw |-> "", photo |-> None,
     code |-> "", title |-> "", face_path |-> "", probe_path |-> "",
     df |-> NoDeepFace, ok |-> FALSE, dist |-> 0, lec_id |-> 0,
     rowid |-> 0, rows |-> <<>>]

\* a step that renders no message
NoOut == [sess |-> 0, op |-> "", outcome |-> "", args |-> Blank]

\* init_db on an empty database, an empty data directory, fresh sessions
Init ==
    /\ students = <<>>
    /\ lectures = <<>>
    /\ attendances = <<>>
    /\ images = [p \in AllPaths |-> NoImage]
    /\ user = [s \in Sessions |-> NoRow]
    /\ pc = [s \in Sessions |-> "idle"]
    /\ req = [s \in Sessions |-> Blank]
    /\ out = NoOut

\* ---------------------------------------------------------------- SQL
\* INTEGER PRIMARY KEY AUTOINCREMENT, rows are never deleted
NextId(table) == Len(table) + 1

\* an insert that overwrites the newest row (INSERT OR REPLACE on a key
\* that is already taken)
Replace_InsertRow(table, row) ==
    IF table = <<>> THEN <<row>> ELSE [table EXCEPT ![Len(table)] = row]

\* INSERT INTO table ... ; commit
InsertRow(table, row) == Append(table, row)

\* SELECT * FROM students WHERE email=?  (fetchone)
SelectStudentByEmail(email) ==
    IF \E i \in 1..Len(students) : students[i].email = email
    THEN students[CHOOSE i \in 1..Len(students) :
                    /\ students[i].email = email
                    /\ \A j \in 1..(i-1) : students[j].email # email]
    ELSE NoRow

\* a lookup that compares the wrong column and so never finds the code
Title_SelectLectureByCode(code) ==
    IF \E i \in 1..Len(lectures) : lectures[i].lecture_title = code
    THEN lectures[CHOOSE i \in 1..Len(lectures) :
                    lectures[i].lecture_title = code].id
    ELSE 0

\* SELECT id FROM lectures WHERE lecture_code=?  (fetchone: the table scan
\* yields the matching row of lowest rowid; 0 stands for no row)
SelectLectureByCode(code) ==
    IF \E i \in 1..Len(lectures) : lectures[i].lecture_code = code
    THEN lectures[CHOOSE i \in 1..Len(lectures) :
                    /\ lectures[i].lecture_code = code
                    /\ \A j \in 1..(i-1) : lectures[j].lecture_code # code].id
    ELSE 0

\* the lookup without its student_id condition
Any_SelectDup(student_id, lecture_id) ==
    \E i \in 1..Len(attendances) : attendances[i].lecture_id = lecture_id

\* SELECT id FROM attendances WHERE student_id=? AND lecture_id=?
SelectDup(student_id, lecture_id) ==
    \E i \in 1..Len(attendances) :
        /\ attendances[i].student_id = student_id
        /\ attendances[i].lecture_id = lecture_id

\* students.email without its UNIQUE constraint
Id_StudentsUniqueViolated(student_id, email) ==
    \E i \in 1..Len(students) : students[i].student_id = student_id

\* the UNIQUE constraints on students.student_id and students.email
StudentsUniqueViolated(student_id, email) ==
    \E i \in 1..Len(students) :
        \/ students[i].student_id = student_id
        \/ students[i].email = email

\* the row INSERT INTO students(...) VALUES(?,?,?,?,?,?) adds for form r
StudentRow(r, id, salt, t) ==
    [id |-> id, student_id |-> r.sid, name |-> r.name, email |-> r.email,
     password_hash |-> generate_password_hash(r.pw, salt),
     face_path |-> r.face_path, created_at |-> IsoFormat(t)]

\* datetime.utcnow(): a logical clock that every committed row advances
utcnow == Len(students) + Len(lectures) + Len(attendances)

\* the handler of session s ends and renders its message
Done(s, op, outcome, args) ==
    /\ pc' = [pc EXCEPT ![s] = "idle"]
    /\ req' = [req EXCEPT ![s] = Blank]
    /\ out' = [sess |-> s, op |-> op, outcome |-> outcome, args |-> args]

\* the handler of session s goes on to its next statement
Goto(s, label, locals) ==
    /\ pc' = [pc EXCEPT ![s] = label]
    /\ req' = [req EXCEPT ![s] = locals]
    /\ out' = NoOut

\* number of sessions about to run the statement at label
At(label) == Cardinality({s \in Sessions : pc[s] = label})

\* ---------------------------------------------------------------- Register
\* save_face
save_face(student_id, image) ==
    [images EXCEPT ![FacePath(student_id)] = ConvertRGB(image)]

\* if not (sid and email and pw and photo)
FieldsMissing(r) == r.sid = "" \/ r.email = "" \/ r.pw = "" \/ r.photo = None

\* "Register" pressed: field check, then save_face(sid, photo)
RegisterSave(s) ==
    /\ pc[s] = "idle"
    /\ \E f \in RegisterForms :
         LET r == [Blank EXCEPT !.sid = f.sid, !.name = f.name,
                       !.email = f.email, !.pw = f.pw, !.photo = f.photo] IN
         IF FieldsMissing(r)
         THEN /\ Done(s, "Register", "FieldsRequired", r)
              /\ UNCHANGED images
         ELSE /\ images' = save_face(r.sid, r.photo)
              /\ Goto(s, "reg_insert", [r EXCEPT !.face_path = FacePath(r.sid)])
    /\ UNCHANGED <<students, lectures, attendances, user>>

\* INSERT INTO students ... ; commit, or sqlite3.IntegrityError
RegisterInsert(s) ==
    /\ pc[s] = "reg_insert"
    /\ LET r == req[s] IN
       IF StudentsUniqueViolated(r.sid, r.email)
       THEN /\ Done(s, "Register", "DuplicateError", r)
            /\ UNCHANGED students
       ELSE \E salt \in Salts :
            /\ students' = InsertRow(students,
                   StudentRow(r, NextId(students), salt, utcnow))
            /\ Done(s, "Register", "Registered", r)
    /\ UNCHANGED <<lectures, attendances, images, user>>

\* ---------------------------------------------------------------- Login
\* a login whose failure also drops the session's user
Logout_Login(s) ==
    /\ pc[s] = "idle"
    /\ \E email \in Emails, pw \in Passwords :
         LET r == [Blank EXCEPT !.email = email, !.pw = pw]
             row == SelectStudentByEmail(email) IN
         IF row # NoRow /\ check_password_hash(row.password_hash, pw)
         THEN /\ user' = [user EXCEPT ![s] = row]
              /\ Done(s, "Login", "LoggedIn", r)
         ELSE /\ user' = [user EXCEPT ![s] = NoRow]
              /\ Done(s, "Login", "InvalidCredentials", r)
    /\ UNCHANGED <<students, lectures, attendances, images>>

\* "Login" pressed
Login(s) ==
    /\ pc[s] = "idle"
    /\ \E email \in Emails, pw \in Passwords :
         LET r == [Blank EXCEPT !.email = email, !.pw = pw]
             row == SelectStudentByEmail(email) IN
         IF row # NoRow /\ check_password_hash(row.password_hash, pw)
         THEN /\ user' = [user EXCEPT ![s] = row]
              /\ Done(s, "Login", "LoggedIn", r)
         ELSE /\ UNCHANGED user
              /\ Done(s, "Login", "InvalidCredentials", r)
    /\ UNCHANGED <<students, lectures, attendances, images>>

\* ---------------------------------------------------------------- Check-in
\* the input check without its lecture-code condition
Photo_InputMissing(r) == r.photo = None

\* if not lec_code or not photo
InputMissing(r) == r.code = "" \/ r.photo = None

\* a gate that lets every verdict through
No_Mismatch(ok) == FALSE

\* if not ok
Mismatch(ok) == ~ok

\* "Check-in" chosen: login guard, input check, then
\* save_face(f"{student_id}_probe", photo)
CheckInSave(s) ==
    /\ pc[s] = "idle"
    /\ \E f \in CheckInForms :
         LET r == [Blank EXCEPT !.code = f.code, !.title = f.title,
                                !.photo = f.photo] IN
         IF user[s] = NoRow
         THEN /\ Done(s, "CheckIn", "PleaseLogin", Blank)
              /\ UNCHANGED images
         ELSE IF InputMissing(r)
         THEN /\ Done(s, "CheckIn", "InputRequired", r)
              /\ UNCHANGED images
         ELSE /\ images' = save_face(ProbeKey(user[s].student_id), r.photo)
              /\ Goto(s, "ci_verify", [r EXCEPT !.probe_path =
                                FacePath(ProbeKey(user[s].student_id))])
    /\ UNCHANGED <<students, lectures, attendances, user>>

\* ok, dist = verify_faces(user["face_path"], probe_path); the gate on
\* ok; then SELECT id FROM lectures WHERE lecture_code=?
CheckInVerify(s) ==
    /\ pc[s] = "ci_verify"
    /\ \E df \in DeepFaceResults :
          /\ (images[user[s].face_path] = NoImage
                \/ images[req[s].probe_path] = NoImage) => df.raised
          /\ LET v == verify_faces(df)
                 r == [req[s] EXCEPT !.df = df, !.ok = v.ok, !.dist = v.dist]
                 lec == SelectLectureByCode(r.code)
             IN  IF Mismatch(r.ok)
                 THEN Done(s, "CheckIn", "FaceMismatch", r)
                 ELSE IF lec = 0
                 THEN /\ Len(lectures) + At("ci_insert_lecture") < MaxLectures
                      /\ Goto(s, "ci_insert_lecture", r)
                 ELSE Goto(s, "ci_dup", [r EXCEPT !.lec_id = lec])
    /\ UNCHANGED <<students, lectures, attendances, images, user>>

\* INSERT INTO lectures ...; commit.  The connection of this script run
\* remembers the rowid of the row it inserted.
CheckInInsertLecture(s) ==
    /\ pc[s] = "ci_insert_lecture"
    /\ lectures' = InsertRow(lectures,
           [id |-> NextId(lectures), lecture_code |-> req[s].code,
            lecture_title |-> req[s].title, date |-> IsoDate(utcnow)])
    /\ Goto(s, "ci_rowid", [req[s] EXCEPT !.rowid = NextId(lectures)])
    /\ UNCHANGED <<students, attendances, images, user>>

\* a stale rowid: one past the row this connection inserted
Stale_last_insert_rowid(s) == req[s].rowid + 1

\* the rowid of the newest row of the table, whoever inserted it
Global_last_insert_rowid(s) == lectures[Len(lectures)].id

\* SELECT last_insert_rowid(): the rowid of the last insert made on the
\* connection of session s
last_insert_rowid(s) == req[s].rowid

\* lec_id = conn.execute("SELECT last_insert_rowid()").fetchone()[0]
CheckInRowid(s) ==
    /\ pc[s] = "ci_rowid"
    /\ Goto(s, "ci_dup", [req[s] EXCEPT !.lec_id = last_insert_rowid(s)])
    /\ UNCHANGED <<students, lectures, attendances, images, user>>

\* dup = SELECT id FROM attendances WHERE student_id=? AND lecture_id=?
CheckInDup(s) ==
    /\ pc[s] = "ci_dup"
    /\ IF SelectDup(user[s].student_id, req[s].lec_id)
       THEN Done(s, "CheckIn", "AlreadyCheckedIn", req[s])
       ELSE /\ Len(attendances) + At("ci_insert_attendance") < MaxAttendances
            /\ Goto(s, "ci_insert_attendance", req[s])
    /\ UNCHANGED <<students, lectures, attendances, images, user>>

\* a row that takes the wrong column of the session user
Email_AttendanceRow(id, u, lec_id, t) ==
    [id |-> id, student_id |-> u.email, lecture_id |-> lec_id,
     timestamp |-> IsoFormat(t)]

\* VALUES (user["student_id"], lec_id, datetime.utcnow().isoformat())
AttendanceRow(id, u, lec_id, t) ==
    [id |-> id, student_id |-> u.student_id, lecture_id |-> lec_id,
     timestamp |-> IsoFormat(t)]

\* INSERT INTO attendances ...; commit
CheckInInsertAttendance(s) ==
    /\ pc[s] = "ci_insert_attendance"
    /\ attendances' = InsertRow(attendances,
           AttendanceRow(NextId(attendances), user[s], req[s].lec_id, utcnow))
    /\ Done(s, "CheckIn", "Recorded", req[s])
    /\ UNCHANGED <<students, lectures, images, user>>

\* ---------------------------------------------------------------- Dashboard
\* the order of two isoformat() texts
TsLess(a, b) == a.date < b.date \/ (a.date = b.date /\ a.time < b.time)

\* FROM attendances a JOIN students s ON s.student_id=a.student_id
\* WHERE lecture_id=?, in rowid order:
\* one (timestamp, student_id, name) per matching pair of rows
RECURSIVE JoinRows(_, _)
JoinRows(n, lec_id) ==
    IF n = 0 THEN <<>>
    ELSE LET a == attendances[n]
             matches == SelectSeq(students,
                            LAMBDA st : st.student_id = a.student_id)
         IN  JoinRows(n - 1, lec_id) \o
             (IF a.lecture_id = lec_id
              THEN [k \in 1..Len(matches) |->
                       [timestamp |-> a.timestamp,
                        student_id |-> matches[k].student_id,
                        name |-> matches[k].name]]
              ELSE <<>>)

\* row put into an ascending sequence, after the rows that are not later
InsertSorted(sorted, row) ==
    LET before == SelectSeq(sorted,
                     LAMBDA r : ~TsLess(row.timestamp, r.timestamp))
        after  == SelectSeq(sorted,
                     LAMBDA r : TsLess(row.timestamp, r.timestamp))
    IN  before \o <<row>> \o after

\* the rows as the join yields them, without the ORDER BY
Unsorted_OrderByTimestamp(rows) == rows

\* ORDER BY a.timestamp
RECURSIVE OrderByTimestamp(_)
OrderByTimestamp(rows) ==
    IF rows = <<>> THEN <<>>
    ELSE InsertSorted(OrderByTimestamp(SubSeq(rows, 1, Len(rows) - 1)),
                      rows[Len(rows)])

\* the query of the dashboard for one lecture
ListAttendance(lec_id) == OrderByTimestamp(JoinRows(Len(attendances), lec_id))

\* lec_map[f"{lecture_code} - {date}"] over SELECT * FROM lectures ORDER BY
\* date DESC: of the rows with one code and date the last one read (the
\* one of highest rowid) keeps the key
LecMap(code, date) ==
    LET same == {i \in 1..Len(lectures) :
                   /\ lectures[i].lecture_code = code
                   /\ lectures[i].date = date}
    IN  lectures[CHOOSE i \in same : \A j \in same : j <= i].id

\* "Dashboard" chosen and a lecture selected
Dashboard(s) ==
    /\ pc[s] = "idle"
    /\ IF lectures = <<>>
       THEN Done(s, "Dashboard", "NoLectures", Blank)
       ELSE \E i \in 1..Len(lectures) :
              LET lec_id == LecMap(lectures[i].lecture_code, lectures[i].date)
              IN  Done(s, "Dashboard", "Table",
                       [Blank EXCEPT !.lec_id = lec_id,
                                     !.rows = ListAttendance(lec_id)])
    /\ UNCHANGED <<students, lectures, attendances, images, user>>

\* ---------------------------------------------------------------- Next
RegisterStep(s) ==
    \/ RegisterSave(s)
    \/ RegisterInsert(s)

CheckInStep(s) ==
    \/ CheckInSave(s)
    \/ CheckInVerify(s)
    \/ CheckInInsertLecture(s)
    \/ CheckInRowid(s)
    \/ CheckInDup(s)
    \/ CheckInInsertAttendance(s)

Step(s) ==
    \/ RegisterStep(s)
    \/ Login(s)
    \/ CheckInStep(s)
    \/ Dashboard(s)

\* all sessions, all operations, from an empty database
Next == \E s \in Sessions : Step(s)

Spec == Init /\ [][Next]_vars

\* The students table and the reference images are written by Register
\* only, the lectures and attendances tables by Check-in only; the two are
\* explored apart, each with every interleaving of the sessions.

\* concurrent registrations and logins, from an empty database
RegNext == \E s \in Sessions : RegisterStep(s) \/ Login(s)

RegSpec == Init /\ [][RegNext]_vars

\* the students table as the registrations of forms leave it
RegisteredRows(forms) ==
    [i \in 1..Len(forms) |->
        StudentRow([forms[i] EXCEPT !.face_path = FacePath(forms[i].sid)],
                   i, "salt1", i - 1)]

\* the data directory as the registrations of forms leave it
RegisteredImages(forms) ==
    [p \in AllPaths |->
        IF \E i \in 1..Len(forms) : FacePath(forms[i].sid) = p
        THEN ConvertRGB(forms[CHOOSE i \in 1..Len(forms) :
                                 FacePath(forms[i].sid) = p].photo)
        ELSE NoImage]

\* fresh sessions
FreshSessions ==
    /\ user = [s \in Sessions |-> NoRow]
    /\ pc = [s \in Sessions |-> "idle"]
    /\ req = [s \in Sessions |-> Blank]
    /\ out = NoOut

\* the database and data directory as two registrations leave them
Registered(forms) ==
    /\ students = RegisteredRows(forms)
    /\ images = RegisteredImages(forms)
    /\ lectures = <<>>
    /\ attendances = <<>>
    /\ user = [s \in Sessions |-> NoRow]
    /\ pc = [s \in Sessions |-> "idle"]
    /\ req = [s \in Sessions |-> Blank]
    /\ out = NoOut

AliceForm == [Blank EXCEPT !.sid = "S100", !.name = "Alice",
                 !.email = "alice@x.com", !.pw = "pw123", !.photo = "faceA"]
BobForm   == [Blank EXCEPT !.sid = "S100_probe", !.name = "Bob",
                 !.email = "bob@x.com", !.pw = "pw456", !.photo = "faceB"]

\* concurrent logins and check-ins of sessions of one registered student
LedgerInit == Registered(<<AliceForm>>)

LedgerNext == \E s \in Sessions : Login(s) \/ CheckInStep(s)

LedgerSpec == LedgerInit /\ [][LedgerNext]_vars

\* one handler at a time (a session acts only while every other is idle),
\* two registered students
SeqInit == Registered(<<AliceForm, BobForm>>)

Alone(s) == \A t \in Sessions \ {s} : pc[t] = "idle"

SeqNext ==
    \E s \in Sessions :
        \/ Alone(s) /\ Login(s)
        \/ Alone(s) /\ CheckInSave(s)
        \/ Alone(s) /\ CheckInVerify(s)
        \/ Alone(s) /\ CheckInInsertLecture(s)
        \/ Alone(s) /\ CheckInRowid(s)
        \/ Alone(s) /\ CheckInDup(s)
        \/ Alone(s) /\ CheckInInsertAttendance(s)

SeqSpec == SeqInit /\ [][SeqNext]_vars

\* the application started on an existing database whose data directory
\* may have been lost (os.makedirs then creates it empty)
RestartInit ==
    /\ students = RegisteredRows(<<AliceForm>>)
    /\ images \in {RegisteredImages(<<AliceForm>>), [p \in AllPaths |-> NoImage]}
    /\ lectures = <<>>
    /\ attendances = <<>>
    /\ FreshSessions

RestartSpec == RestartInit /\ [][LedgerNext]_vars

\* the dashboard on an existing database.  Two sessions that check in at
\* about the same time may read the clock in one order and insert in the
\* other, so rowid order need not be timestamp order.
ListClock == {3, 4, 5}

ListLectures ==
    { <<>>,
      << [id |-> 1, lecture_code |-> "CS101", lecture_title |-> "Intro",
          date |-> 0],
         [id |-> 2, lecture_code |-> "CS102", lecture_title |-> "Intro II",
          date |-> 0] >>,
      << [id |-> 1, lecture_code |-> "CS101", lecture_title |-> "Intro",
          date |-> 0],
         [id |-> 2, lecture_code |-> "CS101", lecture_title |-> "Intro II",
          date |-> 0] >> }

ListInit ==
    /\ students = RegisteredRows(<<AliceForm, BobForm>>)
    /\ images = RegisteredImages(<<AliceForm, BobForm>>)
    /\ lectures \in ListLectures
    /\ \E n \in 0..MaxRows :
          /\ lectures = <<>> => n = 0
          /\ attendances \in
                [1..n -> [id : 1..n,
                          student_id : {"S100", "S100_probe"},
                          lecture_id : {1, 2},
                          timestamp : {IsoFormat(t) : t \in ListClock}]]
          /\ \A i \in 1..n : attendances[i].id = i
    /\ FreshSessions

ListNext == \E s \in Sessions : Dashboard(s)

ListSpec == ListInit /\ [][ListNext]_vars

\* ---------------------------------------------------------------- properties
\* the rows of table lecs whose lecture_code is code
LecturesOf(lecs, code) == {i \in 1..Len(lecs) : lecs[i].lecture_code = code}

\* the rows of table atts of student_id for the lecture with id lecture_id
AttendancesOf(atts, student_id, lecture_id) ==
    {i \in 1..Len(atts) :
        /\ atts[i].student_id = student_id
        /\ atts[i].lecture_id = lecture_id}

\* student_id has an attendance row for a lecture with that code
HasCheckedIn(student_id, code) ==
    \E j \in LecturesOf(lectures, code) :
        AttendancesOf(attendances, student_id, lectures[j].id) # {}

LedgerUnchanged == lectures' = lectures /\ attendances' = attendances

\* session s takes the verification step of its check-in
Verifies(s) == pc[s] = "ci_verify" /\ pc'[s] # "ci_verify"

\* the inputs and locals of s after a step: those of the handler still
\* running, or those rendered with the message of the handler that ended
LocalsAfter(s) == IF pc'[s] = "idle" THEN out'.args ELSE req'[s]

\* C1: in every reachable state, under any interleaving of the sessions'
\* check-ins, the attendances table holds at most one row for each
\* (student_id, lecture_id) pair.
AttendanceUnique ==
    \A i, j \in 1..Len(attendances) :
        (/\ attendances[i].student_id = attendances[j].student_id
         /\ attendances[i].lecture_id = attendances[j].lecture_id) => i = j

\* C6: in every reachable state every attendance row's lecture_id is the id
\* of a row of the lectures table.
AttendanceReferencesLecture ==
    \A i \in 1..Len(attendances) :
        \E j \in 1..Len(lectures) : lectures[j].id = attendances[i].lecture_id

\* an attendance row for a lecture that a check-in created after another
\* lecture already existed
AttendanceForLaterLecture ==
    \E i \in 1..Len(attendances) :
        /\ attendances[i].lecture_id = 2
        /\ Len(lectures) >= 2

\* C8: under any interleaving of verified check-ins the lectures table
\* holds at most one row for each lecture_code.
LectureCodeUnique ==
    \A i, j \in 1..Len(lectures) :
        lectures[i].lecture_code = lectures[j].lecture_code => i = j


\* C2: with one handler at a time, a verified check-in of student S for
\* lecture code L shows Recorded if S had no attendance row for L and
\* AlreadyCheckedIn otherwise (so the first of two calls records and the
\* second does not); the second writes nothing; afterwards there is exactly
\* one lecture row for L and exactly one attendance row for (S, L's lecture).
CheckInTwice ==
    [][ (out'.op = "CheckIn" /\ out'.args.ok) =>
          LET S == user[out'.sess].student_id
              L == out'.args.code
          IN  /\ out'.outcome = IF HasCheckedIn(S, L) THEN "AlreadyCheckedIn"
                                                     ELSE "Recorded"
              /\ out'.outcome = "AlreadyCheckedIn" => LedgerUnchanged
              /\ Cardinality(LecturesOf(lectures', L)) = 1
              /\ \A j \in LecturesOf(lectures', L) :
                    Cardinality(AttendancesOf(attendances', S, lectures'[j].id)) = 1
      ]_vars

\* the second of two check-ins of one student for one code has just ended
SecondCheckInDone ==
    /\ out.op = "CheckIn"
    /\ out.outcome = "AlreadyCheckedIn"
    /\ HasCheckedIn(user[out.sess].student_id, out.args.code)

\* C3: a check-in whose verification returns matched=false ends as a face
\* mismatch and leaves lectures and attendances unchanged; a check-in goes
\* past the verification only with matched=true, and every write to
\* lectures or attendances is a step of a check-in that did.
VerificationGatesMutation ==
    [][ /\ \A s \in Sessions :
             Verifies(s) =>
               IF LocalsAfter(s).ok
               THEN LocalsAfter(s).df.verified /\ pc'[s] # "idle"
               ELSE /\ pc'[s] = "idle"
                    /\ out'.outcome = "FaceMismatch"
                    /\ LedgerUnchanged
        /\ ~LedgerUnchanged =>
             \E s \in Sessions :
                /\ pc[s] \in {"ci_insert_lecture", "ci_insert_attendance"}
                /\ pc'[s] # pc[s]
                /\ req[s].ok /\ req[s].df.verified
      ]_vars

\* a mismatch was just reported for a lecture code no lecture row has
MismatchOnUnseenCode ==
    /\ out.outcome = "FaceMismatch"
    /\ ~out.args.df.raised
    /\ LecturesOf(lectures, out.args.code) = {}

\* C4: a Register call whose student_id or email belongs to a registered
\* student fails with DuplicateError and changes neither the students
\* table nor any stored image.
DuplicateRegisterChangesNothing ==
    [][ /\ \A s \in Sessions :
             (/\ pc[s] = "idle" /\ pc'[s] = "reg_insert"
              /\ StudentsUniqueViolated(req'[s].sid, req'[s].email))
             => images' = images /\ students' = students
        /\ out'.outcome = "DuplicateError" =>
             images' = images /\ students' = students
      ]_vars

\* C5: when the face comparison raises, verify_faces gives matched=false
\* and distance 1.0; the check-in ends there as a face mismatch and writes
\* no lecture and no attendance row.
VerifierFailsClosed ==
    [][ \A s \in Sessions :
          (Verifies(s) /\ LocalsAfter(s).df.raised) =>
             /\ ~LocalsAfter(s).ok
             /\ LocalsAfter(s).dist = FailDistance
             /\ pc'[s] = "idle"
             /\ out'.outcome = "FaceMismatch"
             /\ LedgerUnchanged
      ]_vars

\* a check-in during which the comparison raised has just ended
VerifierRaised ==
    /\ out.op = "CheckIn"
    /\ out.args.df.raised
    /\ out.outcome = "FaceMismatch"

\* C7: in every reachable state, also under concurrent registrations, no
\* two rows of students share a student_id and no two share an email (so
\* of two conflicting Register calls at most one inserted a row).
StudentsUnique ==
    \A i, j \in 1..Len(students) :
        (\/ students[i].student_id = students[j].student_id
         \/ students[i].email = students[j].email) => i = j

\* two overlapping Register calls for one student_id: the one that saved
\* its image first lost the insert to the one that saved second
ConcurrentRegisterLost ==
    /\ out.op = "Register"
    /\ out.outcome = "DuplicateError"
    /\ Len(students) = 1
    /\ students[1].student_id = out.args.sid
    /\ students[1].email # out.args.email
    /\ images[FacePath(out.args.sid)] # ConvertRGB(out.args.photo)

\* the registration forms that can have produced a students row
FormsOf(row) ==
    {f \in RegisterForms :
        f.sid = row.student_id /\ f.email = row.email /\ f.name = row.name}

\* C9: Login with the email of a registered student S and the password
\* given at S's registration succeeds and binds the session to S's row;
\* with any other password, or an email of no student, it shows
\* InvalidCredentials (and binds nothing).
LoginCorrect ==
    [][ out'.op = "Login" =>
          LET s == out'.sess
              match == {i \in 1..Len(students) :
                          /\ students[i].email = out'.args.email
                          /\ \E f \in FormsOf(students[i]) : f.pw = out'.args.pw}
          IN  IF match # {}
              THEN /\ out'.outcome = "LoggedIn"
                   /\ \E i \in match : user'[s] = students[i]
              ELSE /\ out'.outcome = "InvalidCredentials"
                   /\ user' = user
      ]_vars

\* a login has just succeeded
LoggedIn ==
    /\ out.op = "Login"
    /\ out.outcome = "LoggedIn"
    /\ user[out.sess].email = out.args.email

\* C10: a check-in with an empty lecture code is rejected with an error
\* before any verification or storage step: no image is saved, no
\* verification runs, and lectures, attendances and images are unchanged.
EmptyCodeRejected ==
    [][ /\ \A s \in Sessions :
             (pc[s] = "idle" /\ pc'[s] = "ci_verify") => req'[s].code # ""
        /\ (out'.op = "CheckIn" /\ out'.args.code = ""
              /\ user[out'.sess] # NoRow) =>
             /\ out'.outcome = "InputRequired"
             /\ out'.args.df = NoDeepFace
             /\ LedgerUnchanged
             /\ images' = images
      ]_vars

\* a logged-in session has just had an empty lecture code rejected
EmptyCodeSeen ==
    /\ out.op = "CheckIn"
    /\ out.outcome = "InputRequired"
    /\ out.args.code = ""
    /\ user[out.sess] # NoRow

\* the session whose step changed its position
Acts(s) == pc'[s] # pc[s]

\* every session is between handlers
Quiet == \A s \in Sessions : pc[s] = "idle"

\* C13: an attendance row written by a check-in for lecture code c refers
\* to a lecture row whose lecture_code is c, also when the check-in created
\* that row and other sessions inserted lecture rows for other codes
\* before it read the new id.
AttendanceForOwnCode ==
    [][ out'.outcome = "Recorded" =>
          /\ Len(attendances') = Len(attendances) + 1
          /\ \E j \in 1..Len(lectures') :
                /\ lectures'[j].id = attendances'[Len(attendances')].lecture_id
                /\ lectures'[j].lecture_code = out'.args.code
      ]_vars

\* a session has inserted its lecture row and not yet read the new id,
\* and a lecture row for another code was inserted after its own
InsertedBeforeRead ==
    \E s \in Sessions :
        /\ pc[s] = "ci_rowid"
        /\ \E j \in 1..Len(lectures) :
              /\ lectures[j].id > req[s].rowid
              /\ lectures[j].lecture_code # req[s].code

\* C14: lecture and attendance rows are append-only: a row that exists
\* stays, with every field unchanged; so a verified check-in for an
\* existing lecture code with another title leaves the row's title and
\* date as they were.
AppendOnly ==
    [][ /\ Len(lectures') >= Len(lectures)
        /\ \A i \in 1..Len(lectures) : lectures'[i] = lectures[i]
        /\ Len(attendances') >= Len(attendances)
        /\ \A i \in 1..Len(attendances) : attendances'[i] = attendances[i]
        /\ (out'.op = "CheckIn" /\ out'.args.ok) =>
             \A j \in LecturesOf(lectures, out'.args.code) :
                /\ lectures'[j].lecture_title = lectures[j].lecture_title
                /\ lectures'[j].date = lectures[j].date
      ]_vars

\* a verified check-in has just ended for a lecture row that carries
\* another title than the one typed in
OtherTitleCheckedIn ==
    /\ out.op = "CheckIn"
    /\ out.args.ok
    /\ \E j \in LecturesOf(lectures, out.args.code) :
          /\ lectures[j].id = out.args.lec_id
          /\ lectures[j].lecture_title # out.args.title

\* the student_ids of the registered students
RegisteredIds == {students[i].student_id : i \in 1..Len(students)}

\* C16: a lecture or attendance row is written only by a session that is
\* logged in, a session's user changes only by a successful Login to a row
\* of students, a new attendance row carries the student_id of the
\* writing session's user, and every attendance row's student_id is that
\* of a registered student.
WrittenByLoggedIn ==
    [][ /\ ~LedgerUnchanged =>
             \E s \in Sessions :
                /\ Acts(s)
                /\ user[s] # NoRow
                /\ Len(attendances') > Len(attendances) =>
                     attendances'[Len(attendances')].student_id
                        = user[s].student_id
        /\ \A s \in Sessions :
             user'[s] # user[s] =>
                /\ out'.op = "Login" /\ out'.outcome = "LoggedIn"
                /\ out'.sess = s
                /\ \E i \in 1..Len(students) : user'[s] = students[i]
        /\ \A i \in 1..Len(attendances') :
             attendances'[i].student_id \in RegisteredIds
      ]_vars

\* two sessions logged in as different students, one never having
\* checked in, and an attendance row of the other
TwoUsersOneRow ==
    \E s, t \in Sessions :
        /\ user[s] # NoRow /\ user[t] # NoRow
        /\ user[s].student_id # user[t].student_id
        /\ Len(attendances) = 1
        /\ attendances[1].student_id = user[s].student_id

\* the lecture codes for which some student has an attendance row
CodesCheckedIn ==
    {lectures[j].lecture_code :
        j \in {k \in 1..Len(lectures) :
                 \E i \in 1..Len(attendances) :
                    attendances[i].lecture_id = lectures[k].id}}

\* C17: with one handler at a time, a verified check-in inserts a lecture
\* row only for a code that has no row yet, and exactly one; a verified
\* check-in for a code that has a row inserts none; between handlers the
\* number of lecture rows equals the number of distinct codes that had a
\* verified check-in.
OneLecturePerCode ==
    [][ /\ lectures' # lectures =>
             \E s \in Sessions :
                /\ Acts(s) /\ req[s].ok
                /\ LecturesOf(lectures, req[s].code) = {}
                /\ Len(lectures') = Len(lectures) + 1
                /\ lectures'[Len(lectures')].lecture_code = req[s].code
        /\ (out'.op = "CheckIn" /\ out'.args.ok) =>
             Cardinality(LecturesOf(lectures', out'.args.code)) = 1
        /\ Quiet' => Len(lectures') = Cardinality(CodesCheckedIn')
      ]_vars

\* a second student has just been recorded for a lecture that the first
\* student's check-in created
SecondStudentSameLecture ==
    /\ out.outcome = "Recorded"
    /\ Len(lectures) = 1
    /\ Len(attendances) = 2
    /\ attendances[1].student_id # attendances[2].student_id
    /\ attendances[1].lecture_id = attendances[2].lecture_id

\* C18: a Login that shows InvalidCredentials leaves every session's user
\* as it was, and a check-in that is recorded afterwards writes the row
\* for the student the session is (still) logged in as.
FailedLoginKeepsUser ==
    [][ /\ out'.outcome = "InvalidCredentials" =>
             /\ user' = user
             /\ LedgerUnchanged
        /\ out'.outcome = "Recorded" =>
             /\ user' = user
             /\ user[out'.sess] # NoRow
             /\ attendances'[Len(attendances')].student_id
                   = user[out'.sess].student_id
      ]_vars

\* a session that is logged in has just had a login attempt refused
FailedLoginWhileLoggedIn ==
    /\ out.op = "Login"
    /\ out.outcome = "InvalidCredentials"
    /\ user[out.sess] # NoRow

\* the attendance rows of the lecture with id lecture_id
RowsOfLecture(lecture_id) ==
    {i \in 1..Len(attendances) : attendances[i].lecture_id = lecture_id}

\* C11: the dashboard's list for a lecture has exactly one entry per
\* attendance row of that lecture and none of another lecture (each with
\* the row's timestamp and student_id and that student's name), in
\* ascending timestamp order; the call changes no table.
ListAttendanceOrdered ==
    [][ (out'.op = "Dashboard" /\ out'.outcome = "Table") =>
          LET rows == out'.args.rows
              of   == RowsOfLecture(out'.args.lec_id)
          IN  /\ Len(rows) = Cardinality(of)
              /\ \A k \in 1..Len(rows) :
                    /\ Cardinality({m \in 1..Len(rows) :
                          /\ rows[m].timestamp = rows[k].timestamp
                          /\ rows[m].student_id = rows[k].student_id})
                       = Cardinality({i \in of :
                          /\ attendances[i].timestamp = rows[k].timestamp
                          /\ attendances[i].student_id = rows[k].student_id})
                    /\ \E i \in 1..Len(students) :
                          /\ students[i].student_id = rows[k].student_id
                          /\ students[i].name = rows[k].name
              /\ \A k \in 1..(Len(rows) - 1) :
                    ~TsLess(rows[k + 1].timestamp, rows[k].timestamp)
              /\ UNCHANGED <<students, lectures, attendances, images, user>>
      ]_vars

\* three check-ins of one lecture, inserted in another order than they
\* read the clock, have just been listed at t1 < t2 < t3
ThreeListedInOrder ==
    /\ out.op = "Dashboard"
    /\ Len(out.args.rows) = 3
    /\ TsLess(out.args.rows[1].timestamp, out.args.rows[2].timestamp)
    /\ TsLess(out.args.rows[2].timestamp, out.args.rows[3].timestamp)
    /\ TsLess(attendances[3].timestamp, attendances[1].timestamp)

\* C12: when no image is stored under the session user's face_path at
\* verification time, the check-in ends with NotFound (not FaceMismatch)
\* and writes no lecture and no attendance row.
MissingImageIsNotFound ==
    [][ \A s \in Sessions :
          (Verifies(s) /\ images[user[s].face_path] = NoImage) =>
             /\ pc'[s] = "idle"
             /\ out'.outcome = "NotFound"
             /\ LedgerUnchanged
      ]_vars

\* C15: saving the probe image of a check-in changes the image stored
\* under no registered student's face_path.
ProbeKeepsReferences ==
    [][ \A s \in Sessions :
          (pc[s] = "idle" /\ pc'[s] = "ci_verify") =>
             \A i \in 1..Len(students) :
                images'[students[i].face_path] = images[students[i].face_path]
      ]_vars
====
